---- MODULE Spec2Model ----
(***************************************************************************)
(* State-machine model of sfdata_wrangler's HwyNetwork (HwyNetwork.py):    *)
(* the routing index built by initializeShortestPaths and the path and     *)
(* travel-time queries that read it.                                       *)
(*                                                                         *)
(* Numbers.  The program computes in Python floats; the model computes in  *)
(* exact rationals <<n, d>> (d > 0, lowest terms), so an equality of the   *)
(* model is an equality "within floating-point tolerance" of the program.  *)
(* +infinity (numpy.inf) is the pair <<1, 0>>.                             *)
(*                                                                         *)
(* Libraries.  dta (the network), scipy (csr_matrix, shortest_path) and    *)
(* mm.path_inference (State, Path) are not part of the repository; they    *)
(* are modelled by their documented behaviour at the call sites.           *)
(***************************************************************************)
EXTENDS Integers, Sequences, FiniteSets, TLC

(***************************************************************************)
(* Bounds of the model.                                                    *)
(***************************************************************************)
\* most links of the pool loaded into one network
MaxLinks == 3
\* most states in one StateCollection
MaxStates == 2

(***************************************************************************)
(* Program constants.                                                      *)
(***************************************************************************)
\* 60.0 * link.getFreeFlowTTInMin(): seconds per minute
SecondsPerMinute == 60
\* scipy's predecessor sentinel, documented in __init__
NoPredecessor == -9999
\* "if (tot_ff_time < 0.1)": the threshold is StoppedNum / StoppedDen seconds
StoppedNum == 1
StoppedDen == 10

(***************************************************************************)
(* Exact rational arithmetic.                                              *)
(***************************************************************************)
Abs(x) == IF x < 0 THEN -x ELSE x

RECURSIVE GCD(_, _)
GCD(a, b) == IF b = 0 THEN a ELSE GCD(b, a % b)

\* the rational n/d in lowest terms with a positive denominator (d # 0)
Rat(n, d) ==
    LET g == GCD(Abs(n), Abs(d))
        s == IF d < 0 THEN -1 ELSE 1
    IN  <<(s * n) \div g, (s * d) \div g>>

Inf == <<1, 0>>
IsInf(x) == x[2] = 0
Zero == <<0, 1>>
One == <<1, 1>>
RInt(k) == <<k, 1>>

\* (denominators are brought to their least common multiple, and factors cancelled
\* before they are multiplied, to keep the integers small)
RAdd(x, y) == IF IsInf(x) \/ IsInf(y) THEN Inf
              ELSE LET g == GCD(x[2], y[2])
                   IN  Rat(x[1] * (y[2] \div g) + y[1] * (x[2] \div g), x[2] * (y[2] \div g))
RSub(x, y) == RAdd(x, <<-y[1], y[2]>>)
RMul(x, y) == LET g1 == GCD(Abs(x[1]), y[2])
                  g2 == GCD(Abs(y[1]), x[2])
              IN  Rat((x[1] \div g1) * (y[1] \div g2), (x[2] \div g2) * (y[2] \div g1))
\* y # 0
RDiv(x, y) == RMul(x, Rat(y[2], y[1]))
RLt(x, y) == IF IsInf(x) THEN FALSE
             ELSE IF IsInf(y) THEN TRUE
             ELSE LET g == GCD(x[2], y[2])
                  IN  x[1] * (y[2] \div g) < y[1] * (x[2] \div g)
RLe(x, y) == x = y \/ RLt(x, y)
RMin(x, y) == IF RLt(y, x) THEN y ELSE x

RECURSIVE RSum(_)
RSum(s) == IF s = <<>> THEN Zero ELSE RAdd(Head(s), RSum(Tail(s)))

(***************************************************************************)
(* Python's None and a present value.                                      *)
(***************************************************************************)
None == [isNone |-> TRUE, v |-> <<>>]
Some(x) == [isNone |-> FALSE, v |-> x]

(***************************************************************************)
(* The road network (self.net, a dta.Network loaded by readDTANetwork).    *)
(* A link has an id, a start and an end node id, a free-flow time in       *)
(* minutes (a rational) and a length in coordinate units.  The networks    *)
(* of the model are the sub-networks of a pool with parallel links         *)
(* (1, 3), a tie between a direct link and a two-link route (4 against     *)
(* 1 then 2), a cycle (5) and two links of 0.05 s free-flow time (6, 7).   *)
(***************************************************************************)
NodeIds == {101, 102, 103}

\* the clock readings (seconds) a start_time or an end_time is drawn from
TimeValues == {0, 30, 90}

Link(id, a, b, ffn, ffd, len) ==
    [id |-> id, a |-> a, b |-> b, ff |-> Rat(ffn, ffd), len |-> len]

LinkPool ==
    { Link(1, 101, 102, 1, 1, 2),
      Link(2, 102, 103, 2, 1, 2),
      Link(3, 101, 102, 3, 1, 1),
      Link(4, 101, 103, 3, 1, 2),
      Link(5, 103, 101, 1, 1, 1),
      Link(6, 102, 101, 1, 1200, 2),
      Link(7, 101, 103, 1, 1200, 2) }

\* the nodes of set S by ascending id
RECURSIVE Ascending(_)
Ascending(S) ==
    IF S = {} THEN <<>>
    ELSE LET n == CHOOSE n \in S : \A m \in S : n <= m
         IN  <<n>> \o Ascending(S \ {n})

Reverse(s) == [k \in 1..Len(s) |-> s[Len(s) + 1 - k]]

\* the orders in which iterNodes yields the nodes of set S (a dict's order):
\* the model takes the ascending and the descending one
Orders(S) == {Ascending(S), Reverse(Ascending(S))}

\* the product of a sequence of sets: every sequence taking one element of each
RECURSIVE SeqProduct(_)
SeqProduct(ss) ==
    IF ss = <<>> THEN {<<>>}
    ELSE {<<h>> \o t : h \in Head(ss), t \in SeqProduct(Tail(ss))}

VARIABLES
    net,     \* self.net: [nodes: the node ids in iterNodes order, links: the links]
    n2i,     \* self.n2i: None, or the dict node id -> graph index
    i2n,     \* self.i2n: None, or the dict graph index -> node id
    skim,    \* self.skim: None, or the matrix of least costs
    pred,    \* self.pred: None, or the matrix of predecessors
    graph,   \* initializeShortestPaths' local csr_matrix (None until built)
    pc,      \* where initializeShortestPaths stands: "new", "step1", "step3", "storePred", "done"
    res      \* the last query and what it returned

vars == <<net, n2i, i2n, skim, pred, graph, pc, res>>

NodeSet == {net.nodes[k] : k \in 1..Len(net.nodes)}

\* net.getLinkForId
getLinkForId(id) == CHOOSE l \in net.links : l.id = id

\* the links net.getLinkForNodeIdPair(a, b) may return
LinksForNodeIdPair(a, b) == {l \in net.links : l.a = a /\ l.b = b}

\* the cost of a link in initializeShortestPaths and the allocator
FreeFlowSeconds(l) == RMul(RInt(SecondsPerMinute), l.ff)

(***************************************************************************)
(* HwyNetwork.__init__ followed by readDTANetwork: a loaded network and    *)
(* no routing index.                                                       *)
(***************************************************************************)
Init ==
    /\ \E ls \in SUBSET LinkPool :
       \E ns \in SUBSET NodeIds :
       \E order \in Orders(ns) :
          /\ Cardinality(ls) <= MaxLinks
          /\ \A l \in ls : l.a \in ns /\ l.b \in ns
          /\ ls # {} => ns = {l.a : l \in ls} \cup {l.b : l \in ls}
          /\ net = [nodes |-> order, links |-> ls]
    /\ n2i = None
    /\ i2n = None
    /\ skim = None
    /\ pred = None
    /\ graph = None
    /\ pc = "new"
    /\ res = [op |-> "none"]

\* No query changes the object, so a run of the model ends with one query (or one
\* getPaths followed by the allocation of its path): res holds it.
Idle == res.op = "none"

(***************************************************************************)
(* initializeShortestPaths.                                                *)
(***************************************************************************)
\* STEP 1, after k nodes: the dicts n2i and i2n
N2I(k) == [n \in {net.nodes[j] : j \in 1..k} |-> (CHOOSE j \in 1..k : net.nodes[j] = n) - 1]
I2N(k) == [i \in 0..(k - 1) |-> net.nodes[i + 1]]

\* "num_nodes = i+1" after the loop has counted every node
NumNodes == Len(net.nodes) + 1

Indices == 0..(NumNodes - 1)

\* csr_matrix((costs, (anodes, bnodes))): entries of the same (a, b) are summed;
\* a pair without an entry is no edge (Inf here)
CsrEntry(d, a, b) ==
    LET same == {l \in net.links : d[l.a] = a /\ d[l.b] = b}
        ids  == {l.id : l \in same}
        RECURSIVE Total(_)
        Total(S) == IF S = {} THEN Zero
                    ELSE LET i == CHOOSE i \in S : TRUE
                         IN  RAdd(FreeFlowSeconds(getLinkForId(i)), Total(S \ {i}))
    IN  IF same = {} THEN Inf ELSE Total(ids)

CsrMatrix(d) == [a \in Indices |-> [b \in Indices |-> CsrEntry(d, a, b)]]

\* scipy.sparse.csgraph.shortest_path, the distances: Floyd-Warshall
RECURSIVE FloydWarshall(_, _)
FloydWarshall(D, k) ==
    IF k = NumNodes THEN D
    ELSE FloydWarshall(
            [i \in Indices |-> [j \in Indices |->
                RMin(D[i][j], RAdd(D[i][k], D[k][j]))]], k + 1)

ShortestDistances(g) ==
    FloydWarshall([i \in Indices |-> [j \in Indices |->
                     IF i = j THEN Zero ELSE g[i][j]]], 0)

\* the predecessors shortest_path may report for (i, j): any node k before j on a
\* least-cost route, and the sentinel when i = j or j is unreachable
Predecessors(g, D, i, j) ==
    IF i = j \/ IsInf(D[i][j]) THEN {NoPredecessor}
    ELSE {k \in Indices : ~IsInf(g[k][j]) /\ RAdd(D[i][k], g[k][j]) = D[i][j]}

PredecessorMatrices(g, D) ==
    LET row(i) == SeqProduct([j \in 1..NumNodes |-> Predecessors(g, D, i, j - 1)])
        rows   == SeqProduct([i \in 1..NumNodes |-> row(i - 1)])
    IN  {[i \in Indices |-> [j \in Indices |-> m[i + 1][j + 1]]] : m \in rows}

\* the whole method
InitializeShortestPaths ==
    /\ Idle
    /\ pc = "new"
    /\ \E d \in {N2I(Len(net.nodes))} :
       \E g \in {CsrMatrix(d)} :
       \E D \in {ShortestDistances(g)} :
       \E p \in PredecessorMatrices(g, D) :
          /\ n2i' = Some(d)
          /\ i2n' = Some(I2N(Len(net.nodes)))
          /\ graph' = Some(g)
          /\ skim' = Some(D)
          /\ pred' = Some(p)
    /\ pc' = "done"
    /\ UNCHANGED <<net, res>>

(***************************************************************************)
(* The same method step by step, for readers that run beside it: the code  *)
(* takes no lock and sets no flag, so each store is visible as it is made. *)
(***************************************************************************)
\* "self.n2i = {}" and "self.i2n = {}"
BeginStep1 ==
    /\ Idle
    /\ pc = "new"
    /\ n2i' = Some(N2I(0))
    /\ i2n' = Some(I2N(0))
    /\ pc' = "step1"
    /\ UNCHANGED <<net, skim, pred, graph, res>>

\* one turn of the loop over iterNodes
MapNode ==
    /\ Idle
    /\ pc = "step1"
    /\ LET k == Cardinality(DOMAIN n2i.v)
       IN  /\ k < Len(net.nodes)
           /\ n2i' = Some(N2I(k + 1))
           /\ i2n' = Some(I2N(k + 1))
    /\ UNCHANGED <<net, skim, pred, graph, pc, res>>

\* STEP 2, the csr_matrix
BuildGraph ==
    /\ Idle
    /\ pc = "step1"
    /\ Cardinality(DOMAIN n2i.v) = Len(net.nodes)
    /\ graph' = Some(CsrMatrix(n2i.v))
    /\ pc' = "step3"
    /\ UNCHANGED <<net, n2i, i2n, skim, pred, res>>

\* STEP 3, "(self.skim, self.pred) = ...": the first store of the tuple assignment
StoreSkim ==
    /\ Idle
    /\ pc = "step3"
    /\ skim' = Some(ShortestDistances(graph.v))
    /\ pc' = "storePred"
    /\ UNCHANGED <<net, n2i, i2n, pred, graph, res>>

\* and the second
StorePred ==
    /\ Idle
    /\ pc = "storePred"
    /\ \E p \in PredecessorMatrices(graph.v, skim.v) : pred' = Some(p)
    /\ pc' = "done"
    /\ UNCHANGED <<net, n2i, i2n, skim, graph, res>>

\* the routing index is whole: both dicts cover every node, both matrices are stored
IndexBuilt ==
    /\ ~n2i.isNone /\ ~i2n.isNone /\ ~skim.isNone /\ ~pred.isNone
    /\ DOMAIN n2i.v = NodeSet
    /\ \A n \in NodeSet : i2n.v[n2i.v[n]] = n

(***************************************************************************)
(* States and paths (mm.path_inference.structures).                        *)
(***************************************************************************)
State(link_id, offset) == [link_id |-> link_id, offset |-> offset]

Path(s1, links, s2) == [isNone |-> FALSE, start |-> s1, links |-> links, end |-> s2]

\* the states project can produce on the loaded network: offset = t * length, t in [0,1]
States == {State(l.id, o) : l \in net.links, o \in 0..2} \ 
          {State(l.id, o) : l \in {k \in net.links : k.len < 2}, o \in {2}}

(***************************************************************************)
(* getShortestPathNodeSequence.  The outcome is "path" with the node ids,  *)
(* "none" for the list [None], the name of the exception raised, or        *)
(* "diverges" when the while loop would not end.                           *)
(***************************************************************************)
Raised(e) == [outcome |-> e, nodes |-> <<>>]

\* the while loop, from index j with the nodes collected so far
RECURSIVE Trace(_, _, _, _)
Trace(start, j, path, fuel) ==
    IF j = start THEN [outcome |-> "path", nodes |-> Reverse(Append(path, i2n.v[start]))]
    ELSE IF j \notin DOMAIN i2n.v THEN Raised("KeyError")
    ELSE IF pred.isNone THEN Raised("TypeError")
    ELSE IF fuel = 0 THEN Raised("diverges")
    ELSE Trace(start, pred.v[start][j], Append(path, i2n.v[j]), fuel - 1)

\* getShortestPathNodeSequence without the "if np.isinf(cost)" return
getShortestPathNodeSequenceUnguarded(startNode, endNode) ==
    IF n2i.isNone THEN Raised("TypeError")
    ELSE IF startNode \notin DOMAIN n2i.v \/ endNode \notin DOMAIN n2i.v THEN Raised("KeyError")
    ELSE IF skim.isNone THEN Raised("TypeError")
    ELSE Trace(n2i.v[startNode], n2i.v[endNode], <<>>, NumNodes)

getShortestPathNodeSequence(startNode, endNode) ==
    IF n2i.isNone THEN Raised("TypeError")
    ELSE IF startNode \notin DOMAIN n2i.v \/ endNode \notin DOMAIN n2i.v THEN Raised("KeyError")
    ELSE IF skim.isNone THEN Raised("TypeError")
    ELSE LET start == n2i.v[startNode]
             end   == n2i.v[endNode]
         IN  IF IsInf(skim.v[start][end]) THEN Raised("none")
             ELSE Trace(start, end, <<>>, NumNodes)

GetShortestPathNodeSequence(startNode, endNode) ==
    /\ Idle
    /\ LET r == getShortestPathNodeSequence(startNode, endNode)
       IN  res' = [op |-> "getShortestPathNodeSequence", startNode |-> startNode,
                   endNode |-> endNode, outcome |-> r.outcome, nodes |-> r.nodes]
    /\ UNCHANGED <<net, n2i, i2n, skim, pred, graph, pc>>

(***************************************************************************)
(* getPaths.                                                               *)
(***************************************************************************)
\* LinkSeqs without the trailing "linkSeq.append(s2.link_id)"
LinkSeqsWithoutLast(s1, nodeSeq, s2) ==
    LET inner == SeqProduct([i \in 1..(Len(nodeSeq) - 1) |->
                    {l.id : l \in LinksForNodeIdPair(nodeSeq[i], nodeSeq[i + 1])}])
    IN  {<<s1.link_id>> \o m : m \in inner}

\* the link sequences the loop over nodeSeq can build: one link of each
\* consecutive node pair, between the two states' links
LinkSeqs(s1, nodeSeq, s2) ==
    LET inner == SeqProduct([i \in 1..(Len(nodeSeq) - 1) |->
                    {l.id : l \in LinksForNodeIdPair(nodeSeq[i], nodeSeq[i + 1])}])
    IN  {<<s1.link_id>> \o m \o <<s2.link_id>> : m \in inner}

\* what getPaths can return: [outcome |-> "ok", paths |-> the list] or an exception
getPaths(s1, s2) ==
    IF s1.link_id = s2.link_id
    THEN {[outcome |-> "ok", paths |-> <<Path(s1, <<s1.link_id>>, s2)>>]}
    ELSE LET startNode == getLinkForId(s1.link_id).b
             endNode   == getLinkForId(s2.link_id).a
         IN  IF n2i.isNone THEN {[outcome |-> "TypeError", paths |-> <<>>]}
             ELSE IF startNode \notin DOMAIN n2i.v \/ endNode \notin DOMAIN n2i.v
             THEN {[outcome |-> "KeyError", paths |-> <<>>]}
             ELSE IF skim.isNone THEN {[outcome |-> "TypeError", paths |-> <<>>]}
             ELSE IF IsInf(skim.v[n2i.v[startNode]][n2i.v[endNode]])
             THEN {[outcome |-> "ok", paths |-> <<None>>]}
             ELSE LET r == getShortestPathNodeSequence(startNode, endNode)
                  IN  IF r.outcome # "path" THEN {[outcome |-> r.outcome, paths |-> <<>>]}
                      ELSE {[outcome |-> "ok", paths |-> <<Path(s1, ls, s2)>>] :
                               ls \in LinkSeqs(s1, r.nodes, s2)}

GetPaths(s1, s2) ==
    /\ Idle
    /\ \E r \in getPaths(s1, s2) :
          res' = [op |-> "getPaths", s1 |-> s1, s2 |-> s2,
                  outcome |-> r.outcome, paths |-> r.paths]
    /\ UNCHANGED <<net, n2i, i2n, skim, pred, graph, pc>>

(***************************************************************************)
(* getPathsBetweenCollections.                                             *)
(***************************************************************************)
StateCollection(states) == [states |-> states]

\* the states of the links of set S at offset 0, by ascending link id
RECURSIVE StatesOf(_)
StatesOf(S) ==
    IF S = {} THEN <<>>
    ELSE LET l == CHOOSE l \in S : \A m \in S : l.id <= m.id
         IN  <<State(l.id, 0)>> \o StatesOf(S \ {l})

\* the collections a GPS fix projects to: at most MaxStates states, each on its own link
Collections ==
    {StateCollection(StatesOf(S)) : S \in {T \in SUBSET net.links : Cardinality(T) <= MaxStates}}

\* ForPathInPs without "num_paths += 1"
RECURSIVE ForPathInPsNoIncrement(_, _, _, _)
ForPathInPsNoIncrement(ps, i1, i2, acc) ==
    IF ps = <<>> THEN acc
    ELSE ForPathInPsNoIncrement(Tail(ps), i1, i2,
            [trans1    |-> Append(acc.trans1, <<i1, acc.num_paths>>),
             trans2    |-> Append(acc.trans2, <<acc.num_paths, i2>>),
             paths     |-> Append(acc.paths, Head(ps)),
             num_paths |-> acc.num_paths])

\* "for path in ps": the three appends and the increment, for each element of ps
RECURSIVE ForPathInPs(_, _, _, _)
ForPathInPs(ps, i1, i2, acc) ==
    IF ps = <<>> THEN acc
    ELSE ForPathInPs(Tail(ps), i1, i2,
            [trans1    |-> Append(acc.trans1, <<i1, acc.num_paths>>),
             trans2    |-> Append(acc.trans2, <<acc.num_paths, i2>>),
             paths     |-> Append(acc.paths, Head(ps)),
             num_paths |-> acc.num_paths + 1])

\* the two nested range loops from the k-th pair on (row-major, i1 outer), where
\* got[k] is what getPaths returned for that pair
RECURSIVE ForI1ForI2(_, _, _, _)
ForI1ForI2(got, n2, k, acc) ==
    IF k > Len(got) THEN [outcome |-> "ok", trans1 |-> acc.trans1,
                          paths |-> acc.paths, trans2 |-> acc.trans2]
    ELSE IF got[k].outcome # "ok"
    THEN [outcome |-> got[k].outcome, trans1 |-> <<>>, paths |-> <<>>, trans2 |-> <<>>]
    ELSE ForI1ForI2(got, n2, k + 1,
            ForPathInPs(got[k].paths, (k - 1) \div n2, (k - 1) % n2, acc))

getPathsBetweenCollections(sc1, sc2) ==
    LET n1 == Len(sc1.states)
        n2 == Len(sc2.states)
        gots == SeqProduct([k \in 1..(n1 * n2) |->
                    getPaths(sc1.states[((k - 1) \div n2) + 1], sc2.states[((k - 1) % n2) + 1])])
    IN  {ForI1ForI2(got, n2, 1,
            [trans1 |-> <<>>, trans2 |-> <<>>, paths |-> <<>>, num_paths |-> 0]) : got \in gots}

GetPathsBetweenCollections(sc1, sc2) ==
    /\ Idle
    /\ \E r \in getPathsBetweenCollections(sc1, sc2) :
          res' = [op |-> "getPathsBetweenCollections", sc1 |-> sc1, sc2 |-> sc2,
                  outcome |-> r.outcome, trans1 |-> r.trans1, paths |-> r.paths,
                  trans2 |-> r.trans2]
    /\ UNCHANGED <<net, n2i, i2n, skim, pred, graph, pc>>

(***************************************************************************)
(* The travel-time allocator.                                              *)
(***************************************************************************)
getLinkOffsetRatio(state) == Rat(state.offset, getLinkForId(state.link_id).len)

getPathTraversalRatios(path) ==
    LET n      == Len(path.links)
        ones   == [k \in 1..n |-> One]
        first  == [ones EXCEPT ![1] = RSub(@, getLinkOffsetRatio(path.start))]
    IN  [first EXCEPT ![n] = RSub(@, RSub(One, getLinkOffsetRatio(path.end)))]

\* "60.0 * link.getFreeFlowTTInMin() * traversalRatios[i]", for every link of the path
LinkFreeFlowTimes(path, traversalRatios) ==
    [i \in 1..Len(path.links) |->
        RMul(FreeFlowSeconds(getLinkForId(path.links[i])), traversalRatios[i])]

getPathFreeFlowTTInSeconds(path) ==
    RSum(LinkFreeFlowTimes(path, getPathTraversalRatios(path)))

\* LinkTravelTime with the whole link's free-flow time as its share, the traversal
\* ratio forgotten
LinkTravelTimeOfWholeLink(path, tot_tt, tot_ff_time, ff_times, i) ==
    IF RLt(tot_ff_time, Rat(StoppedNum, StoppedDen))
    THEN RMul(tot_tt, RDiv(One, RInt(Len(path.links))))
    ELSE RMul(tot_tt, RDiv(FreeFlowSeconds(getLinkForId(path.links[i])), tot_ff_time))

\* LinkTravelTime that splits equally whatever the free-flow total is
LinkTravelTimeEqualSplit(path, tot_tt, tot_ff_time, ff_times, i) ==
    RMul(tot_tt, RDiv(One, RInt(Len(path.links))))

\* LinkTravelTime whose stopped branch forgets the "1.0/len(path.links)"
LinkTravelTimeUndivided(path, tot_tt, tot_ff_time, ff_times, i) ==
    IF RLt(tot_ff_time, Rat(StoppedNum, StoppedDen))
    THEN tot_tt
    ELSE RMul(tot_tt, RDiv(ff_times[i], tot_ff_time))

\* LinkTravelTime whose proportional branch forgets to divide by tot_ff_time
LinkTravelTimeUnnormalised(path, tot_tt, tot_ff_time, ff_times, i) ==
    IF RLt(tot_ff_time, Rat(StoppedNum, StoppedDen))
    THEN RMul(tot_tt, RDiv(One, RInt(Len(path.links))))
    ELSE RMul(tot_tt, ff_times[i])

\* the travel time of link i of the path
LinkTravelTime(path, tot_tt, tot_ff_time, ff_times, i) ==
    IF RLt(tot_ff_time, Rat(StoppedNum, StoppedDen))
    THEN RMul(tot_tt, RDiv(One, RInt(Len(path.links))))
    ELSE RMul(tot_tt, RDiv(ff_times[i], tot_ff_time))

\* (path.links, traversalRatios, link_tt)
allocatePathTravelTimeToLinks(path, start_time, end_time) ==
    LET traversalRatios == getPathTraversalRatios(path)
        tot_tt          == RInt(end_time - start_time)
        tot_ff_time     == getPathFreeFlowTTInSeconds(path)
        ff_times        == LinkFreeFlowTimes(path, traversalRatios)
    IN  [links |-> path.links,
         traversalRatios |-> traversalRatios,
         link_tt |-> [i \in 1..Len(path.links) |->
                        LinkTravelTime(path, tot_tt, tot_ff_time, ff_times, i)]]

\* the allocation of the path getPaths has just returned (None has no links:
\* AttributeError)
AllocatePathTravelTimeToLinks(start_time, end_time) ==
    /\ res.op = "getPaths"
    /\ res.outcome = "ok"
    /\ LET path == res.paths[1]
       IN  IF path.isNone
           THEN res' = [op |-> "allocatePathTravelTimeToLinks", path |-> path,
                        start_time |-> start_time, end_time |-> end_time,
                        outcome |-> "AttributeError"]
           ELSE \E r \in {allocatePathTravelTimeToLinks(path, start_time, end_time)} :
                res' = [op |-> "allocatePathTravelTimeToLinks", path |-> path,
                        start_time |-> start_time, end_time |-> end_time,
                        outcome |-> "ok", links |-> r.links,
                        traversalRatios |-> r.traversalRatios, link_tt |-> r.link_tt,
                        tot_ff_time |-> getPathFreeFlowTTInSeconds(path)]
    /\ UNCHANGED <<net, n2i, i2n, skim, pred, graph, pc>>

Next ==
    \/ InitializeShortestPaths
    \/ \E a \in NodeSet, b \in NodeSet : GetShortestPathNodeSequence(a, b)
    \/ \E s1 \in States, s2 \in States : GetPaths(s1, s2)
    \/ \E sc1 \in Collections, sc2 \in Collections : GetPathsBetweenCollections(sc1, sc2)
    \/ \E start_time \in TimeValues, end_time \in TimeValues :
          AllocatePathTravelTimeToLinks(start_time, end_time)

Spec == Init /\ [][Next]_vars

NextConc ==
    \/ BeginStep1
    \/ MapNode
    \/ BuildGraph
    \/ StoreSkim
    \/ StorePred
    \/ \E s1 \in States, s2 \in States : GetPaths(s1, s2)

SpecConc == Init /\ [][NextConc]_vars

(***************************************************************************)
(* The claims.                                                             *)
(***************************************************************************)
Allocated == res.op = "allocatePathTravelTimeToLinks" /\ res.outcome = "ok"
FoundPath == res.op = "getPaths" /\ res.outcome = "ok" /\ ~res.paths[1].isNone
Stopped == RLt(res.tot_ff_time, Rat(StoppedNum, StoppedDen))

\* C1: for a path of at least one link and start_time <= end_time, the travel
\* times allocatePathTravelTimeToLinks returns sum to end_time - start_time, in
\* the equal-split branch and in the proportional branch.
C1_AllocationsSumToTotal ==
    (Allocated /\ res.start_time <= res.end_time /\ Len(res.links) >= 1)
        => RSum(res.link_tt) = RInt(res.end_time - res.start_time)

\* a proportional allocation of a positive time over three partly traversed links
C1_Witness ==
    /\ Allocated
    /\ res.start_time < res.end_time
    /\ Len(res.links) >= 3
    /\ ~Stopped
    /\ res.traversalRatios[1] # One
    /\ res.link_tt[1] # res.link_tt[2]

\* C2: a pair of states with no route between them adds no entry to the paths
\* list getPathsBetweenCollections returns (and so no transition edge): every
\* entry is a found path.
C2_UnreachablePairsSkipped ==
    (res.op = "getPathsBetweenCollections" /\ res.outcome = "ok")
        => \A k \in 1..Len(res.paths) : ~res.paths[k].isNone

\* C3: a path getPaths finds begins with s1's link and ends with s2's link; for
\* different links it is s1's link, then one link for each consecutive pair of
\* the shortest node sequence from the end node of s1's link to the start node
\* of s2's link, then s2's link, each link ending where the next begins; when
\* s1's link ends where s2's link starts it is exactly [s1.link, s2.link].
C3_PathBeginsAndEndsOnStateLinks ==
    FoundPath =>
        LET ls == res.paths[1].links
            n  == Len(ls)
            l1 == getLinkForId(res.s1.link_id)
            l2 == getLinkForId(res.s2.link_id)
        IN  /\ n >= 1
            /\ ls[1] = res.s1.link_id
            /\ ls[n] = res.s2.link_id
            /\ res.s1.link_id # res.s2.link_id =>
                 LET nodeSeq == getShortestPathNodeSequence(l1.b, l2.a).nodes
                 IN  /\ n = Len(nodeSeq) + 1
                     /\ \A k \in 2..(n - 1) :
                           /\ getLinkForId(ls[k]).a = nodeSeq[k - 1]
                           /\ getLinkForId(ls[k]).b = nodeSeq[k]
                     /\ \A k \in 1..(n - 1) :
                           getLinkForId(ls[k]).b = getLinkForId(ls[k + 1]).a
            /\ (res.s1.link_id # res.s2.link_id /\ l1.b = l2.a) =>
                 ls = <<res.s1.link_id, res.s2.link_id>>

\* a found path with an interior link
C3_Witness ==
    /\ FoundPath
    /\ res.s1.link_id # res.s2.link_id
    /\ Len(res.paths[1].links) >= 3

\* C4: for a path getPaths produced from states with offsets in [0, length],
\* every traversal ratio lies in [0, 1], the single-link path of two states on
\* one link included, whatever the order of their offsets.
C4_TraversalRatiosInUnitInterval ==
    Allocated =>
        \A k \in 1..Len(res.traversalRatios) :
            RLe(Zero, res.traversalRatios[k]) /\ RLe(res.traversalRatios[k], One)

\* C5: after initializeShortestPaths, the node sequence of a pair of finite cost,
\* mapped to links pair by pair, is a chain of existing links whose free-flow
\* seconds sum to skim[i][j].
C5_ChainCostEqualsSkim ==
    (res.op = "getShortestPathNodeSequence" /\ res.outcome = "path" /\ pc = "done") =>
        LET nodeSeq == res.nodes
            chains  == SeqProduct([k \in 1..(Len(nodeSeq) - 1) |->
                          LinksForNodeIdPair(nodeSeq[k], nodeSeq[k + 1])])
        IN  /\ nodeSeq[1] = res.startNode
            /\ nodeSeq[Len(nodeSeq)] = res.endNode
            /\ chains # {}
            /\ \A c \in chains :
                  RSum([k \in 1..Len(c) |-> FreeFlowSeconds(c[k])])
                      = skim.v[n2i.v[res.startNode]][n2i.v[res.endNode]]

\* C6: the edge weight the shortest-path computation uses for a node pair (a, b)
\* is the least free-flow seconds among the links from a to b.
C6_ParallelLinksCollapseToMinimum ==
    ~graph.isNone =>
        \A l \in net.links :
            LET w == graph.v[n2i.v[l.a]][n2i.v[l.b]]
            IN  /\ \E m \in LinksForNodeIdPair(l.a, l.b) : w = FreeFlowSeconds(m)
                /\ \A m \in LinksForNodeIdPair(l.a, l.b) : RLe(w, FreeFlowSeconds(m))

\* C7: allocatePathTravelTimeToLinks with end_time before start_time is rejected:
\* it returns no allocation.
C7_EndBeforeStartRejected ==
    (res.op = "allocatePathTravelTimeToLinks" /\ ~res.path.isNone
        /\ res.end_time < res.start_time) => res.outcome # "ok"

\* C8: on a network of no nodes or no links initializeShortestPaths fails before
\* it produces a skim or a pred matrix.
C8_EmptyNetworkRejected ==
    (Len(net.nodes) = 0 \/ net.links = {})
        => (skim.isNone /\ pred.isNone /\ pc # "done")

\* C9: after initializeShortestPaths on N nodes, n2i and i2n are inverse
\* bijections between the node ids and 0..N-1, and skim and pred are N x N.
C9_IndexBijectiveAndMatricesNxN ==
    pc = "done" =>
        LET N == Len(net.nodes)
        IN  /\ DOMAIN n2i.v = NodeSet
            /\ DOMAIN i2n.v = 0..(N - 1)
            /\ \A n \in NodeSet : i2n.v[n2i.v[n]] = n
            /\ \A i \in 0..(N - 1) : n2i.v[i2n.v[i]] = i
            /\ DOMAIN skim.v = 0..(N - 1)
            /\ DOMAIN pred.v = 0..(N - 1)
            /\ \A i \in DOMAIN skim.v : DOMAIN skim.v[i] = 0..(N - 1)
            /\ \A i \in DOMAIN pred.v : DOMAIN pred.v[i] = 0..(N - 1)

\* C10: in every interleaving of initializeShortestPaths with readers, a path
\* query that reads the routing index (getPaths between two links) starts only
\* on an index that is wholly built: n2i, i2n, skim and pred all present and
\* consistent.
C10_ReadersStartOnBuiltIndex ==
    [][(Idle /\ res'.op = "getPaths" /\ res'.s1.link_id # res'.s2.link_id)
          => IndexBuilt]_vars

TotalObserved == RInt(res.end_time - res.start_time)

\* the traversal ratio of link i of the path as section 4.6 of the specification
\* states it: 1 - startOffsetRatio on the first link, endOffsetRatio on the last,
\* both adjustments on a single link, 1 in between
StatedRatio(path, i) ==
    LET n  == Len(path.links)
        r1 == Rat(path.start.offset, getLinkForId(path.start.link_id).len)
        r2 == Rat(path.end.offset, getLinkForId(path.end.link_id).len)
    IN  IF n = 1 THEN RSub(RSub(One, r1), RSub(One, r2))
        ELSE IF i = 1 THEN RSub(One, r1)
        ELSE IF i = n THEN r2
        ELSE One

StatedFreeFlow(path, i) ==
    RMul(FreeFlowSeconds(getLinkForId(path.links[i])), StatedRatio(path, i))

\* links A->B (60 s) then B->C (120 s), both states half way, 90 s observed
C11_Example ==
    /\ Allocated
    /\ res.links = <<1, 2>>
    /\ FreeFlowSeconds(getLinkForId(1)) = RInt(60)
    /\ FreeFlowSeconds(getLinkForId(2)) = RInt(120)
    /\ getLinkOffsetRatio(res.path.start) = Rat(1, 2)
    /\ getLinkOffsetRatio(res.path.end) = Rat(1, 2)
    /\ res.start_time = 0
    /\ res.end_time = 90

\* C11: when the path's total free-flow time is at least 0.1 s, link i gets
\* totalObserved * (60 * freeFlowMinutes_i * traversalRatio_i) / totalFreeFlow;
\* links of 60 s and 120 s, both states half way and 90 s observed give the
\* ratios [0.5, 0.5] and the allocations 30 s and 60 s.
C11_ProportionalShares ==
    /\ (Allocated /\ ~Stopped) =>
          LET n     == Len(res.links)
              total == RSum([i \in 1..n |-> StatedFreeFlow(res.path, i)])
          IN  /\ res.tot_ff_time = total
              /\ \A i \in 1..n :
                    /\ res.traversalRatios[i] = StatedRatio(res.path, i)
                    /\ res.link_tt[i] =
                          RMul(TotalObserved, RDiv(StatedFreeFlow(res.path, i), total))
    /\ C11_Example =>
          /\ res.traversalRatios = <<Rat(1, 2), Rat(1, 2)>>
          /\ res.link_tt = <<RInt(30), RInt(60)>>

\* the example of the claim has been allocated
C11_Witness == C11_Example /\ ~Stopped

\* C12: when the path's total free-flow time is below 0.1 s, each of its N links
\* gets totalObserved / N whatever the links' weights (3 links, 60 s: 20 s each).
C12_EqualSplitWhenStopped ==
    (Allocated /\ Stopped) =>
        /\ \A i \in 1..Len(res.links) :
              res.link_tt[i] = Rat(res.end_time - res.start_time, Len(res.links))
        /\ (Len(res.links) = 3 /\ res.end_time - res.start_time = 60) =>
              res.link_tt = <<RInt(20), RInt(20), RInt(20)>>

\* three links of different weights, 60 s observed, equally split
C12_Witness ==
    /\ Allocated
    /\ Stopped
    /\ Len(res.links) = 3
    /\ res.end_time - res.start_time = 60
    /\ res.link_tt = <<RInt(20), RInt(20), RInt(20)>>
    /\ \E i, j \in 1..3 : LinkFreeFlowTimes(res.path, res.traversalRatios)[i]
                            # LinkFreeFlowTimes(res.path, res.traversalRatios)[j]

NodeSequenceOfInitialized == res.op = "getShortestPathNodeSequence" /\ pc = "done"

\* C13: on an initialized network getShortestPathNodeSequence ends for every pair
\* of node ids: for a finite cost the walk over pred[start] reaches start in at
\* most N-1 steps, never reads the sentinel and visits no node twice, and the
\* sequence goes from start to end ([start] alone when they are equal); for an
\* infinite cost it returns the no-path outcome without walking.
C13_NodeSequenceWalkEnds ==
    NodeSequenceOfInitialized =>
        LET cost == skim.v[n2i.v[res.startNode]][n2i.v[res.endNode]]
            n    == Len(res.nodes)
        IN  /\ res.outcome \in {"path", "none"}
            /\ IsInf(cost) <=> res.outcome = "none"
            /\ res.outcome = "none" => res.nodes = <<>>
            /\ res.outcome = "path" =>
                  /\ n >= 1
                  /\ n - 1 <= Len(net.nodes) - 1
                  /\ res.nodes[1] = res.startNode
                  /\ res.nodes[n] = res.endNode
                  /\ \A i, j \in 1..n : res.nodes[i] = res.nodes[j] => i = j
                  /\ \A i \in 1..n : res.nodes[i] \in NodeSet
                  /\ \A i \in 2..n :
                        pred.v[n2i.v[res.startNode]][n2i.v[res.nodes[i]]]
                            = n2i.v[res.nodes[i - 1]]
                  /\ res.startNode = res.endNode => res.nodes = <<res.startNode>>

\* a walk of two steps, and the network also has a pair without a route
C13_Witness ==
    /\ NodeSequenceOfInitialized
    /\ res.outcome = "path"
    /\ Len(res.nodes) = 3
    /\ \E a \in NodeSet, b \in NodeSet : IsInf(skim.v[n2i.v[a]][n2i.v[b]])

CollectionsExpanded == res.op = "getPathsBetweenCollections" /\ res.outcome = "ok"

\* C14: getPathsBetweenCollections returns three lists of one length whose path
\* numbers are 0..len-1 in row-major order: trans1[k] = (i1, k) and
\* trans2[k] = (k, i2) for one pair (i1, i2), paths[k] is what getPaths returns
\* for states i1 and i2, no number is skipped or reused and every index lies
\* within its collection.
C14_PathNumbersConsecutiveRowMajor ==
    CollectionsExpanded =>
        LET len == Len(res.paths)
            n1  == Len(res.sc1.states)
            n2  == Len(res.sc2.states)
        IN  /\ Len(res.trans1) = len
            /\ Len(res.trans2) = len
            /\ \A k \in 1..len :
                  LET i1 == res.trans1[k][1]
                      i2 == res.trans2[k][2]
                  IN  /\ res.trans1[k][2] = k - 1
                      /\ res.trans2[k][1] = k - 1
                      /\ i1 \in 0..(n1 - 1)
                      /\ i2 \in 0..(n2 - 1)
                      /\ \E r \in getPaths(res.sc1.states[i1 + 1], res.sc2.states[i2 + 1]) :
                            r.outcome = "ok" /\ res.paths[k] \in {r.paths[j] : j \in 1..Len(r.paths)}
            /\ \A k \in 1..(len - 1) :
                  \/ res.trans1[k][1] < res.trans1[k + 1][1]
                  \/ /\ res.trans1[k][1] = res.trans1[k + 1][1]
                     /\ res.trans2[k][2] < res.trans2[k + 1][2]

\* two states against two states on an initialized network, with a found path
\* and a pair without a route
C14_Witness ==
    /\ CollectionsExpanded
    /\ pc = "done"
    /\ Len(res.sc1.states) = 2
    /\ Len(res.sc2.states) = 2
    /\ Len(res.paths) = 4
    /\ \E k \in 1..4 : res.paths[k].isNone
    /\ \E k \in 1..4 : ~res.paths[k].isNone /\ Len(res.paths[k].links) >= 2

\* the two states are on one link and the end offset is before the start offset
ReversedOnOneLink ==
    /\ res.path.start.link_id = res.path.end.link_id
    /\ res.path.end.offset < res.path.start.offset

\* C15: for a path getPaths produced from states with offsets in [0, length],
\* free-flow times >= 0 and start_time <= end_time, every travel time
\* allocatePathTravelTimeToLinks returns lies in [0, totalObserved]; a path on
\* one link whose end offset is before its start offset has a negative free-flow
\* total, takes the equal-split branch, and nothing is divided by zero.
C15_SharesWithinTotal ==
    (Allocated /\ res.start_time <= res.end_time) =>
        /\ \A i \in 1..Len(res.link_tt) :
              RLe(Zero, res.link_tt[i]) /\ RLe(res.link_tt[i], TotalObserved)
        /\ ReversedOnOneLink =>
              /\ RLt(res.tot_ff_time, Zero)
              /\ Stopped
              /\ res.link_tt = <<TotalObserved>>
        /\ ~Stopped => RLt(Zero, res.tot_ff_time)
        /\ Len(res.links) >= 1

\* a positive time allocated to a path on one link travelled backwards
C15_Witness ==
    /\ Allocated
    /\ res.start_time < res.end_time
    /\ ReversedOnOneLink
    /\ res.link_tt = <<TotalObserved>>
====
